---------------------------- MODULE Spec2Model ----------------------------
(***************************************************************************)
(* A model of fasttext::Model (src/src/model.cc): the Huffman tree of the  *)
(* hierarchical softmax, the negative-sampling table and its cursor, the   *)
(* attention forward pass, the loss kernels, the update drivers and the    *)
(* top-k prediction.                                                       *)
(*                                                                         *)
(* Indices are the source's (0-based): vectors and matrices are functions  *)
(* over 0..n-1.  std::vector values that only grow by push_back (paths,    *)
(* codes, negatives, heap) are sequences, entry c of the source being      *)
(* entry c+1 of the sequence.                                              *)
(***************************************************************************)
EXTENDS Integers, Sequences, FiniteSets

VARIABLES
  osz,        \* osz_: the number of output classes (wo->m_)
  counts,     \* the counts vector handed to setTargetCounts
  argsLoss,   \* args_->loss: "ns", "hs" or "softmax"
  built,      \* whether setTargetCounts has run
  tree,       \* tree: the 2*osz-1 Huffman nodes
  paths,      \* paths: one path per class, leaf to root
  codes,      \* codes: one code per class, leaf to root
  negatives,  \* negatives: the negative-sampling table
  negpos,     \* negpos: the cursor into negatives
  pc,         \* where the engine's thread stands: "idle" or inside a call
  caller,     \* who called the running or last getNegative: "driver", "ns"
  target,     \* the target argument of the running or last call
  startpos,   \* negpos when the running or last getNegative was entered
  examined,   \* table entries read by the running or last getNegative,
              \* counted up to |negatives| + 1
  ret,        \* the value the last getNegative returned, -1 before it returns
  nsN,        \* n, the loop variable of negativeSampling
  nBinLog,    \* binaryLogistic calls made by the running or last negativeSampling
  argsModel,  \* args_->model: "sup" or another model
  wi_,        \* wi_: the input matrix, one row per feature
  wo_,        \* wo_: the output matrix, one row per class or tree node
  attn_,      \* attn_: the attention matrix, rows by feature, columns by position
  bias_,      \* bias_: the attention bias, one entry per position
  hidden_,    \* hidden_: the hidden vector
  grad_,      \* grad_: the gradient vector
  output_,    \* output_: the output vector
  softmaxattn_, \* softmaxattn_: the attention weights of the last forward pass
  loss_,      \* loss_: the loss accumulator
  nexamples_, \* nexamples_: the example counter
  lossSum,    \* the sum of the losses the loss kernels have returned
  nKernel,    \* the number of loss kernel runs
  nCalls,     \* the number of calls the driver has made
  call,       \* the last call of the driver: its name, arguments and result
  kArg,       \* k, the argument of the running or last predict
  heap,       \* heap, the vector of (score, node) pairs predict fills
  dfsStack,   \* the calls of dfs still to run, the next one first
  nPruned     \* the number of calls of dfs that returned at the pruning test

cfgVars == <<osz, counts, argsLoss, built>>

treeVars == <<tree, paths, codes>>

negVars == <<negatives, negpos>>

ctlVars == <<pc, caller, target, startpos, examined, ret, nsN, nBinLog>>

numVars == <<argsModel, wi_, wo_, attn_, bias_, hidden_, grad_, output_,
             softmaxattn_, loss_, nexamples_>>

histVars == <<lossSum, nKernel, nCalls, call>>

predVars == <<kArg, heap, dfsStack, nPruned>>

vars == <<cfgVars, treeVars, negVars, ctlVars, numVars, histVars, predVars>>

--------------------------------------------------------------------------
(* Bounds of the model *)

\* the largest number of output classes of the tree specification
MaxOsz == 6

\* the class counts the tree specification draws from
TreeCountVals == {1, 2, 3, 5}

\* the counts of the spec's end-to-end scenario 1
ScenarioCounts == [c \in 0..2 |-> IF c = 0 THEN 10 ELSE IF c = 1 THEN 5 ELSE 1]

\* the largest number of output classes of the negative-sampling specification
NegMaxOsz == 2

\* the class counts the negative-sampling specification draws from: perfect
\* squares, whose square roots pow(counts[i], 0.5) computes exactly
NegCountVals == {1, 4}

\* the control state of an engine no call of which is under way
CtlUnused ==
  /\ pc = "idle"
  /\ caller = "none"
  /\ target = 0
  /\ startpos = 0
  /\ examined = 0
  /\ ret = -1
  /\ nsN = 0
  /\ nBinLog = 0

\* the parameters and scratch vectors of an engine whose arithmetic the
\* specification does not follow
NumUnused ==
  /\ argsModel = "sup"
  /\ wi_ = <<>>
  /\ wo_ = <<>>
  /\ attn_ = <<>>
  /\ bias_ = <<>>
  /\ hidden_ = <<>>
  /\ grad_ = <<>>
  /\ output_ = <<>>
  /\ softmaxattn_ = <<>>

\* the driver has called nothing yet
NoCall ==
  [op |-> "none", input |-> <<>>, target |-> 0, label |-> FALSE, lr |-> 0,
   ret |-> 0]

\* lines 23-40: the engine after construction: no tree, no table, the
\* cursor at 0
EngineConstructed ==
  /\ built = FALSE
  /\ tree = <<>>
  /\ paths = <<>>
  /\ codes = <<>>
  /\ negatives = <<>>
  /\ negpos = 0
  /\ loss_ = 0
  /\ nexamples_ = 1
  /\ lossSum = 0
  /\ nKernel = 0
  /\ nCalls = 0
  /\ call = NoCall
  /\ kArg = 0
  /\ heap = <<>>
  /\ dfsStack = <<>>
  /\ nPruned = 0
  /\ CtlUnused

--------------------------------------------------------------------------
(* Model::buildTree *)

\* tree[i].count = 1e15 of an unbuilt node.  TLC's integers are 32 bits wide;
\* the value stands for any count larger than every sum of class counts.
InfCount == 1000000000

\* lines 470-480: every node reset, the leaves given their counts
ResetTree(n, cnt) ==
  [i \in 0..(2 * n - 2) |->
     [parent |-> -1, left |-> -1, right |-> -1,
      count |-> IF i < n THEN cnt[i] ELSE InfCount,
      binary |-> FALSE]]

\* lines 486-490: the next smallest node, from the leaf cursor or the node
\* cursor; st = [tree, leaf, node]
PickMin(st) ==
  IF st.leaf >= 0 /\ st.tree[st.leaf].count < st.tree[st.node].count
    THEN [mini |-> st.leaf, leaf |-> st.leaf - 1, node |-> st.node]
    ELSE [mini |-> st.node, leaf |-> st.leaf, node |-> st.node + 1]

\* a slip in the marking of the children: the first child marked instead of
\* the second
LinkFirstBinary(t, i, m0, m1) ==
  LET t1 == [t EXCEPT ![i].left = m0, ![i].right = m1,
                      ![i].count = t[m0].count + t[m1].count]
      t2 == [t1 EXCEPT ![m0].parent = i]
      t3 == [t2 EXCEPT ![m1].parent = i]
  IN  [t3 EXCEPT ![m0].binary = TRUE]

\* lines 492-497: node i becomes the parent of mini[0] and mini[1]
LinkChildren(t, i, m0, m1) ==
  LET t1 == [t EXCEPT ![i].left = m0, ![i].right = m1,
                      ![i].count = t[m0].count + t[m1].count]
      t2 == [t1 EXCEPT ![m0].parent = i]
      t3 == [t2 EXCEPT ![m1].parent = i]
  IN  [t3 EXCEPT ![m1].binary = TRUE]

\* lines 492-497: the loop state after node i is linked to the picks p0, p1
MergeLinked(t, i, p0, p1) ==
  [tree |-> LinkChildren(t, i, p0.mini, p1.mini),
   leaf |-> p1.leaf, node |-> p1.node]

\* lines 485-491, j = 1: the second pick, after the first pick p0
MergeSecond(t, i, p0) ==
  MergeLinked(t, i, p0,
              PickMin([tree |-> t, leaf |-> p0.leaf, node |-> p0.node]))

\* lines 484-497: one iteration of the merge loop
MergeStep(st, i) == MergeSecond(st.tree, i, PickMin(st))

RECURSIVE MergeLoop(_, _, _)
\* lines 483-498: the merge loop, i from osz to 2*osz-2
MergeLoop(st, i, n) ==
  IF i >= 2 * n - 1 THEN st.tree ELSE MergeLoop(MergeStep(st, i), i + 1, n)

\* lines 470-498: the tree of buildTree
HuffmanTree(n, cnt) ==
  MergeLoop([tree |-> ResetTree(n, cnt), leaf |-> n - 1, node |-> n], n, n)

RECURSIVE PathDoWhile(_, _, _)
\* a slip in the walk to the root: a do-while, which records the parent of
\* the root as well
PathDoWhile(t, n, j) ==
  <<t[j].parent - n>> \o
    (IF t[j].parent = -1 THEN <<>> ELSE PathDoWhile(t, n, t[j].parent))

RECURSIVE PathToRoot(_, _, _)
\* lines 502-507 (path): the parents of j up to the root, offset by -osz
PathToRoot(t, n, j) ==
  IF t[j].parent = -1 THEN <<>>
  ELSE <<t[j].parent - n>> \o PathToRoot(t, n, t[j].parent)

RECURSIVE CodeToRoot(_, _)
\* lines 502-507 (code): the binary flags of j and its ancestors below the root
CodeToRoot(t, j) ==
  IF t[j].parent = -1 THEN <<>>
  ELSE <<t[j].binary>> \o CodeToRoot(t, t[j].parent)

\* lines 499-510: one path and one code per class appended, for tree t
RecordPaths(t) ==
  /\ tree' = t
  /\ paths' = paths \o [c \in 1..osz |-> PathToRoot(t, osz, c - 1)]
  /\ codes' = codes \o [c \in 1..osz |-> CodeToRoot(t, c - 1)]

\* lines 469-511: buildTree
buildTree == RecordPaths(HuffmanTree(osz, counts))

--------------------------------------------------------------------------
(* Model::initTableNegatives, Model::getNegative, Model::negativeSampling *)

\* NEGATIVE_TABLE_SIZE (model.h), scaled down from the source's ten million
\* so that the shuffled tables can be enumerated
NEGATIVE_TABLE_SIZE == 3

\* args_->neg: the number of negatives drawn per positive
Neg == 2

RECURSIVE Sqrt(_, _)
\* pow(x, 0.5) on a perfect square x: the r >= from with r * r = x
Sqrt(x, from) == IF from * from >= x THEN from ELSE Sqrt(x, from + 1)

RECURSIVE SumSqrt(_, _)
\* lines 447-450: z, the sum of the square roots of counts[0..n-1]
SumSqrt(cnt, n) ==
  IF n = 0 THEN 0 ELSE SumSqrt(cnt, n - 1) + Sqrt(cnt[n - 1], 0)

\* lines 452-453: how often the loop "for j = 0; j < c * SIZE / z; j++" runs
\* for class i: the least integer that is not below c * SIZE / z
Repeats(cnt, n, i) ==
  LET c == Sqrt(cnt[i], 0)
      z == SumSqrt(cnt, n)
  IN  (c * NEGATIVE_TABLE_SIZE + z - 1) \div z

RECURSIVE Repeat(_, _)
Repeat(i, k) == IF k = 0 THEN <<>> ELSE <<i>> \o Repeat(i, k - 1)

RECURSIVE UnshuffledTable(_, _, _)
\* lines 451-456: the table before the shuffle, classes 0..upto-1 pushed
UnshuffledTable(cnt, n, upto) ==
  IF upto = 0 THEN <<>>
  ELSE UnshuffledTable(cnt, n, upto - 1) \o
         Repeat(upto - 1, Repeats(cnt, n, upto - 1))

\* how often class i occurs in table t
Occurrences(t, i) == Cardinality({k \in 1..Len(t) : t[k] = i})

\* line 457: std::shuffle leaves some permutation of the table
Shuffles(t, n) ==
  {s \in [1..Len(t) -> 0..(n - 1)] :
     \A i \in 0..(n - 1) : Occurrences(s, i) = Occurrences(t, i)}

\* lines 446-458: initTableNegatives, which appends the table and shuffles
initTableNegatives ==
  \E t \in Shuffles(UnshuffledTable(counts, osz, osz), osz) :
     negatives' = negatives \o t

\* lines 436-444: setTargetCounts, called once by the driver before any
\* update or prediction
setTargetCounts ==
  /\ ~built
  /\ built' = TRUE
  /\ IF argsLoss = "ns" THEN initTableNegatives ELSE UNCHANGED negatives
  /\ IF argsLoss = "hs" THEN buildTree ELSE UNCHANGED treeVars
  /\ UNCHANGED <<osz, counts, argsLoss, negpos, ctlVars, numVars, histVars,
                 predVars>>

\* a slip in the cursor: it skips an entry
SkipPos(pos, len) == (pos + 2) % len

\* line 464: the cursor after one entry is read
NextPos(pos, len) == (pos + 1) % len

\* a slip in the loop bound of negativeSampling: n < neg
NSLoopShort(n) == n < Neg

\* line 62: the loop condition of negativeSampling
NSLoopRuns(n) == n <= Neg

\* the driver calls getNegative(t)
CallGetNegative ==
  /\ built /\ pc = "idle"
  /\ \E t \in 0..(osz - 1) : target' = t
  /\ pc' = "getNegative"
  /\ caller' = "driver"
  /\ startpos' = negpos
  /\ examined' = 0
  /\ ret' = -1
  /\ UNCHANGED <<cfgVars, treeVars, negatives, negpos, nsN, nBinLog>>
  /\ UNCHANGED <<numVars, histVars, predVars>>

\* lines 462-466: one iteration of the do-while loop of getNegative, and the
\* return when the entry read differs from target
GetNegativeIter ==
  /\ pc = "getNegative"
  /\ LET negative == negatives[negpos + 1]
     IN  /\ negpos' = NextPos(negpos, Len(negatives))
         /\ examined' = IF examined > Len(negatives) THEN examined
                         ELSE examined + 1
         /\ IF target = negative
              THEN UNCHANGED <<pc, ret>>
              ELSE /\ ret' = negative
                   /\ pc' = IF caller = "ns" THEN "nsNegative" ELSE "idle"
  /\ UNCHANGED <<cfgVars, treeVars, negatives, caller, target, startpos, nsN, nBinLog>>
  /\ UNCHANGED <<numVars, histVars, predVars>>

\* line 59-61: the driver's update calls negativeSampling(t, lr)
CallNegativeSampling ==
  /\ built /\ pc = "idle"
  /\ \E t \in 0..(osz - 1) : target' = t
  /\ pc' = "nsLoop"
  /\ caller' = "ns"
  /\ nsN' = 0
  /\ nBinLog' = 0
  /\ ret' = -1
  /\ UNCHANGED <<cfgVars, treeVars, negatives, negpos, startpos, examined>>
  /\ UNCHANGED <<numVars, histVars, predVars>>

\* lines 62-68, 71: the loop head of negativeSampling: the return, the
\* positive binaryLogistic of n = 0, or the call of getNegative(target)
NSLoop ==
  /\ pc = "nsLoop"
  /\ IF ~NSLoopRuns(nsN)
       THEN /\ pc' = "idle"
            /\ UNCHANGED <<nsN, nBinLog, startpos, examined, ret>>
       ELSE IF nsN = 0
         THEN /\ nBinLog' = nBinLog + 1
              /\ nsN' = nsN + 1
              /\ UNCHANGED <<pc, startpos, examined, ret>>
         ELSE /\ pc' = "getNegative"
              /\ startpos' = negpos
              /\ examined' = 0
              /\ ret' = -1
              /\ UNCHANGED <<nsN, nBinLog>>
  /\ UNCHANGED <<cfgVars, treeVars, negatives, negpos, caller, target>>
  /\ UNCHANGED <<numVars, histVars, predVars>>

\* line 66: binaryLogistic on the negative getNegative returned, then n++
NSNegative ==
  /\ pc = "nsNegative"
  /\ nBinLog' = nBinLog + 1
  /\ nsN' = nsN + 1
  /\ pc' = "nsLoop"
  /\ UNCHANGED <<cfgVars, treeVars, negatives, negpos, caller, target, startpos,
                 examined, ret>>
  /\ UNCHANGED <<numVars, histVars, predVars>>

--------------------------------------------------------------------------
(* Numbers.  A real is a fixed-point integer: v stands for v / Scale. *)

\* the fixed-point unit: 1.0
Scale == 1000

\* args_->dim: the dimension of the hidden vector
Dim == 2

\* the number of relative positions: the columns of attn_, the size of bias_
NPos == 2

\* MAX_SIGMOID (model.h)
MAX_SIGMOID == 8

\* SIGMOID_TABLE_SIZE (model.h), scaled down from the source's 512
SIGMOID_TABLE_SIZE == 16

\* LOG_TABLE_SIZE (model.h), scaled down from the source's 512
LOG_TABLE_SIZE == 16

\* a * b of two reals
Mul(a, b) == (a * b) \div Scale

\* lines 515-521: t_sigmoid[i] = 1 / (1 + exp(-x)), x = i * 2 * MAX_SIGMOID /
\* SIGMOID_TABLE_SIZE - MAX_SIGMOID, for i = 0..SIGMOID_TABLE_SIZE
t_sigmoid == <<0, 1, 2, 7, 18, 47, 119, 269, 500, 731, 881, 953, 982, 993, 998, 999, 1000>>

\* lines 523-529: t_log[i] = log((i + 1e-5) / LOG_TABLE_SIZE), for
\* i = 0..LOG_TABLE_SIZE
t_log == <<-14286, -2773, -2079, -1674, -1386, -1163, -981, -827, -693, -575, -470, -375, -288, -208, -134, -65, 0>>

\* lines 531-537: log(x)
log(x) ==
  IF x > Scale THEN 0
  ELSE t_log[((x * LOG_TABLE_SIZE) \div Scale) + 1]

\* lines 539-548: sigmoid(x)
sigmoid(x) ==
  IF x < -(MAX_SIGMOID * Scale) THEN 0
  ELSE IF x > MAX_SIGMOID * Scale THEN Scale
  ELSE t_sigmoid[(((x + MAX_SIGMOID * Scale) * SIGMOID_TABLE_SIZE)
                   \div (MAX_SIGMOID * Scale * 2)) + 1]

\* exp(-q/4) for q = 0..32; a positive float below the fixed-point unit is
\* kept positive (1)
t_exp == <<1000, 779, 607, 472, 368, 287, 223, 174, 135, 105, 82, 64, 50, 39, 30, 24, 18, 14, 11, 9, 7, 5, 4, 3, 2, 2, 2, 1, 1, 1, 1, 1, 1>>

\* std::exp(d) for d <= 0, on quarters
exp(d) ==
  LET q == ((-d) * 4) \div Scale
  IN  IF q > 32 THEN 1 ELSE t_exp[q + 1]

\* the zero vector of dimension Dim (Vector::zero)
ZeroVec == [d \in 0..(Dim - 1) |-> 0]

RECURSIVE SumUpTo(_, _)
\* f[0] + ... + f[n-1]
SumUpTo(f, n) == IF n = 0 THEN 0 ELSE SumUpTo(f, n - 1) + f[n - 1]

\* Vector::dot
dot(u, v) == SumUpTo([d \in 0..(Dim - 1) |-> Mul(u[d], v[d])], Dim)

\* Matrix::dotRow(vec, i)
dotRow(m, v, i) == dot(m[i], v)

\* Vector::addRow(A, i, a): v += a * A[i]
vecAddRow(v, m, i, a) == [d \in 0..(Dim - 1) |-> v[d] + Mul(a, m[i][d])]

\* Matrix::addRow(vec, i, a): M[i] += a * vec
matAddRow(m, v, i, a) ==
  [m EXCEPT ![i] = [d \in 0..(Dim - 1) |-> m[i][d] + Mul(a, v[d])]]

\* Vector::mul(1.0 / n): every entry divided by n
vecDiv(v, n) == [d \in 0..(Dim - 1) |-> v[d] \div n]

--------------------------------------------------------------------------
(* The loss kernels *)

\* a slip in the step size: the learning rate left out
AlphaNoLr(lr, label, score) == (IF label THEN Scale ELSE 0) - score

\* line 49: alpha = lr * (real(label) - score)
Alpha(lr, label, score) == Mul(lr, (IF label THEN Scale ELSE 0) - score)

\* lines 52-56: the value binaryLogistic returns for score
CrossEntropy(label, score) ==
  IF label THEN -log(score) ELSE -log(Scale - score)

\* lines 50-56: the update and the return of binaryLogistic for step alpha
BinaryLogisticStep(wo, grad, h, t, label, alpha, score) ==
  [grad |-> vecAddRow(grad, wo, t, alpha),
   wo |-> matAddRow(wo, h, t, alpha),
   ret |-> CrossEntropy(label, score)]

\* lines 49-56: binaryLogistic once the score is computed
BinaryLogisticScored(wo, grad, h, t, label, lr, score) ==
  BinaryLogisticStep(wo, grad, h, t, label, Alpha(lr, label, score), score)

\* lines 47-57: binaryLogistic(t, label, lr) on output matrix wo, gradient
\* grad and hidden vector h: the new wo and grad, and the value returned
binaryLogistic(wo, grad, h, t, label, lr) ==
  BinaryLogisticScored(wo, grad, h, t, label, lr, sigmoid(dotRow(wo, h, t)))

\* lines 64, 66, 80: loss += binaryLogistic(...): the kernel's state st =
\* [wo, grad, negpos, loss, output] takes the result b of a binaryLogistic
Absorb(st, b) ==
  [st EXCEPT !.wo = b.wo, !.grad = b.grad, !.loss = st.loss + b.ret]

\* a kernel's state after one more binaryLogistic
AfterBinaryLogistic(st, h, t, label, lr) ==
  Absorb(st, binaryLogistic(st.wo, st.grad, h, t, label, lr))

RECURSIVE getNegative(_, _, _)
\* lines 460-467: getNegative(t) from cursor pos: the negative and the cursor
getNegative(negs, pos, t) ==
  LET negative == negs[pos + 1]
      np == NextPos(pos, Len(negs))
  IN  IF t = negative THEN getNegative(negs, np, t)
      ELSE [negative |-> negative, negpos |-> np]

\* line 66: binaryLogistic on the negative g = [negative, negpos] drawn
NegativeStep(st, h, lr, g) ==
  AfterBinaryLogistic([st EXCEPT !.negpos = g.negpos], h, g.negative, FALSE, lr)

RECURSIVE NegativeSamplingFrom(_, _, _, _, _)
\* lines 62-68: the loop of negativeSampling from n on
NegativeSamplingFrom(st, h, t, lr, n) ==
  IF ~NSLoopRuns(n) THEN st
  ELSE IF n = 0
    THEN NegativeSamplingFrom(AfterBinaryLogistic(st, h, t, TRUE, lr),
                              h, t, lr, n + 1)
    ELSE NegativeSamplingFrom(
           NegativeStep(st, h, lr, getNegative(negatives, st.negpos, t)),
           h, t, lr, n + 1)

\* lines 59-72: negativeSampling(t, lr)
negativeSampling(st, h, t, lr) ==
  NegativeSamplingFrom([st EXCEPT !.grad = ZeroVec, !.loss = 0], h, t, lr, 0)

RECURSIVE HierarchicalSoftmaxFrom(_, _, _, _, _)
\* lines 79-81: the loop of hierarchicalSoftmax from i on (i counts from 1)
HierarchicalSoftmaxFrom(st, h, t, lr, i) ==
  IF i > Len(paths[t + 1]) THEN st
  ELSE HierarchicalSoftmaxFrom(
         AfterBinaryLogistic(st, h, paths[t + 1][i], codes[t + 1][i], lr),
         h, t, lr, i + 1)

\* lines 74-83: hierarchicalSoftmax(t, lr)
hierarchicalSoftmax(st, h, t, lr) ==
  HierarchicalSoftmaxFrom([st EXCEPT !.grad = ZeroVec, !.loss = 0], h, t, lr, 1)

\* std::max(a, b); "if (a > b) b = a"
Larger(a, b) == IF a > b THEN a ELSE b

RECURSIVE MaxUpTo(_, _)
\* lines 87-90: the largest of out[0..n-1], starting from out[0]
MaxUpTo(out, n) ==
  IF n = 0 THEN out[0] ELSE Larger(out[n - 1], MaxUpTo(out, n - 1))

\* lines 95-97: the exponentials e divided by their sum z
Normalised(e, z) == [i \in 0..(osz - 1) |-> (e[i] * Scale) \div z]

\* lines 91-97: the exponentials of out less max, divided by their sum
ExpNormalised(out, max) ==
  Normalised([i \in 0..(osz - 1) |-> exp(out[i] - max)],
             SumUpTo([i \in 0..(osz - 1) |-> exp(out[i] - max)], osz))

\* lines 87-97: the stable softmax of the products out
StableSoftmax(out) == ExpNormalised(out, MaxUpTo(out, osz))

\* lines 85-98: computeOutputSoftmax(hidden, output)
computeOutputSoftmax(wo, h) ==
  StableSoftmax([i \in 0..(osz - 1) |-> dotRow(wo, h, i)])

\* lines 108-109: class i's row of wo added to grad and updated, step alpha
SoftmaxStep(st, h, i, alpha) ==
  [st EXCEPT !.grad = vecAddRow(st.grad, st.wo, i, alpha),
             !.wo = matAddRow(st.wo, h, i, alpha)]

RECURSIVE SoftmaxFrom(_, _, _, _, _)
\* lines 105-110: the loop of softmax from class i on
SoftmaxFrom(st, h, t, lr, i) ==
  IF i >= osz THEN st
  ELSE SoftmaxFrom(
         SoftmaxStep(st, h, i,
                     Mul(lr, (IF i = t THEN Scale ELSE 0) - st.output[i])),
         h, t, lr, i + 1)

\* lines 103-111: softmax once the output out is computed
SoftmaxOn(st, h, t, lr, out) ==
  [SoftmaxFrom([st EXCEPT !.grad = ZeroVec, !.output = out], h, t, lr, 0)
     EXCEPT !.loss = -log(out[t])]

\* lines 102-112: softmax(t, lr)
softmax(st, h, t, lr) ==
  SoftmaxOn(st, h, t, lr, computeOutputSoftmax(st.wo, h))

\* lines 364-370, 402-408, 419-425: the configured loss kernel
LossKernel(st, h, t, lr) ==
  IF argsLoss = "ns" THEN negativeSampling(st, h, t, lr)
  ELSE IF argsLoss = "hs" THEN hierarchicalSoftmax(st, h, t, lr)
  ELSE softmax(st, h, t, lr)

\* the kernel state of the engine
KernelState ==
  [wo |-> wo_, grad |-> grad_, negpos |-> negpos, loss |-> 0,
   output |-> output_]

--------------------------------------------------------------------------
(* The forward passes *)

\* Vector::addRow(A, i): v += A[i], u being row A[i]
vecAdd(v, u) == [d \in 0..(Dim - 1) |-> v[d] + u[d]]

RECURSIVE SumRows(_, _, _)
\* lines 117-120: the sum of the rows wi[input[1..n]]
SumRows(wi, input, n) ==
  IF n = 0 THEN ZeroVec
  ELSE vecAdd(SumRows(wi, input, n - 1), wi[input[n]])

\* lines 114-122: computeHidden(input, hidden), input not empty
computeHidden(input, wi) == vecDiv(SumRows(wi, input, Len(input)), Len(input))

RECURSIVE SeqSum(_, _)
\* s[1] + ... + s[n]
SeqSum(s, n) == IF n = 0 THEN 0 ELSE SeqSum(s, n - 1) + s[n]

RECURSIVE AttentionMax(_, _)
\* lines 144, 151-153: attention_max, which starts at 0.0
AttentionMax(a, n) ==
  IF n = 0 THEN 0
  ELSE Larger(a[n], AttentionMax(a, n - 1))

\* lines 156-160: what is pushed for each logit: 0 below -50, else the
\* exponential
ClampedExp(a, m) ==
  [i \in 1..Len(a) |-> IF a[i] - m < -(50 * Scale) THEN 0 ELSE exp(a[i] - m)]

\* line 163: every entry divided by sum.  A weight is the pair of the value
\* pushed and the sum it is divided by: [num, den] is num / den, and 0 / 0
\* is what the float division leaves, NaN
DividedBy(e, sum) == [i \in 1..Len(e) |-> [num |-> e[i], den |-> sum]]

\* lines 161-163: the values pushed, divided by their sum
DividedBySum(e) == DividedBy(e, SeqSum(e, Len(e)))

\* lines 156-163: the weights of the logits a
SoftmaxWeights(a) == DividedBySum(ClampedExp(a, AttentionMax(a, Len(a))))

\* w * x for a weight w and a real x
Weighted(w, x) == (w.num * x) \div w.den

\* Vector::addRow(A, i, a): v += w * A[i], u being row A[i]
vecAddWeighted(v, u, w) == [d \in 0..(Dim - 1) |-> v[d] + Weighted(w, u[d])]

RECURSIVE WeightedRows(_, _, _, _)
\* lines 164-165: the sum of sm[i] * wi[input[i].first] for i = 1..n
WeightedRows(wi, input, sm, n) ==
  IF n = 0 THEN ZeroVec
  ELSE vecAddWeighted(WeightedRows(wi, input, sm, n - 1),
                      wi[input[n][1]], sm[n])

\* the hidden vector of the weights sm; every entry is NaN when they are
AttnHidden(wi, input, sm) ==
  IF sm[1].den = 0 THEN [d \in 0..(Dim - 1) |-> "NaN"]
  ELSE WeightedRows(wi, input, sm, Len(input))

\* lines 164-165, 208-209: the weights sm and the hidden vector they give
AttnForward(wi, input, sm) ==
  [softmaxattn |-> sm, hidden |-> AttnHidden(wi, input, sm)]

\* the forward pass fw = [softmaxattn, hidden] written to softmaxattn_ and
\* hidden_
TakeForward(fw) ==
  /\ softmaxattn_' = fw.softmaxattn
  /\ hidden_' = fw.hidden

\* lines 131-175: computeAttnHidden(input, hidden, softmaxattn), the logit of
\* a pair read at (feature, position)
computeAttnHidden(input, wi, attn, bias) ==
  AttnForward(wi, input,
    SoftmaxWeights([i \in 1..Len(input) |->
                      attn[input[i][1]][input[i][2]] + bias[input[i][2]]]))

\* lines 184-210: computeAttnHidden2(input, target, hidden, softmaxattn), the
\* logit of a pair read at (target, position)
computeAttnHidden2(input, t, wi, attn, bias) ==
  AttnForward(wi, input,
    SoftmaxWeights([i \in 1..Len(input) |->
                      attn[t][input[i][2]] + bias[input[i][2]]]))

\* lines 303-311, 330-334: the updates for one pair (f, pos): gattn is the
\* gradient of its logit, a = softmaxattn[i] * input_size, row the row of attn_
AttnGradientStep(par, g, f, pos, row, gattn, a) ==
  [wi |-> matAddRow(par.wi, g, f, a),
   attn |-> [par.attn EXCEPT ![row][pos] = @ + gattn],
   bias |-> [par.bias EXCEPT ![pos] = @ + gattn]]

RECURSIVE AttnGradientFrom(_, _, _, _, _, _, _)
\* lines 298-312 and 328-335: the loop of computeAttnGradient (t = -1: the
\* attention row is the pair's feature) and of computeAttnGradient2 (the
\* attention row is t) from pair i on; par = [wi, attn, bias]
AttnGradientFrom(par, input, g, sm, h, t, i) ==
  IF i > Len(input) THEN par
  ELSE AttnGradientFrom(
         AttnGradientStep(par, g, input[i][1], input[i][2],
           IF t = -1 THEN input[i][1] ELSE t,
           Weighted(sm[i], dotRow(par.wi, g, input[i][1]) - dot(g, h)),
           (sm[i].num * Len(input) * Scale) \div sm[i].den),
         input, g, sm, h, t, i + 1)

\* lines 282-313: computeAttnGradient(input, gradient, softmaxattn)
computeAttnGradient(par, input, g, sm, h) ==
  AttnGradientFrom(par, input, g, sm, h, -1, 1)

\* lines 323-336: computeAttnGradient2(input, target, gradient, softmaxattn)
computeAttnGradient2(par, input, t, g, sm, h) ==
  AttnGradientFrom(par, input, g, sm, h, t, 1)

--------------------------------------------------------------------------
(* The update drivers *)

\* the most calls the driver makes in the update specification
MaxCalls == 2

\* the inputs the driver passes to update: feature indices
UpdateInputs == {<<>>, <<0, 1>>}

\* the inputs the driver passes to updateAttn and updateAttn2: pairs of a
\* feature and a position
AttnInputs == {<<>>, <<<<1, 0>>, <<1, 1>>>>, <<<<0, 0>>, <<1, 1>>>>}

\* the learning rates: 0 and 0.1
LrVals == {0, 100}

\* a slip in the filter: nothing erased
EraseNothing(input, t) == input

\* lines 355-360, 393-398: the pairs whose feature is the target erased
EraseTarget(input, t) == SelectSeq(input, LAMBDA p : p[1] # t)

\* a slip in the counter: not incremented
SameExamples(n) == n

\* lines 371, 409, 426: nexamples_ += 1
NextExamples(n) == n + 1

RECURSIVE ScatterRows(_, _, _, _)
\* lines 431-433: wi_[input[i]] += grad_ for i = 1..n
ScatterRows(wi, g, input, n) ==
  IF n = 0 THEN wi
  ELSE matAddRow(ScatterRows(wi, g, input, n - 1), g, input[n], Scale)

\* the driver may make a call: setTargetCounts has run, no call is under way
MayCall == built /\ pc = "idle" /\ nCalls < MaxCalls

\* lines 419-426: the kernel's result k taken over by the engine
TakeKernel(k) ==
  /\ wo_' = k.wo
  /\ output_' = k.output
  /\ negpos' = k.negpos
  /\ loss_' = loss_ + k.loss
  /\ nexamples_' = NextExamples(nexamples_)
  /\ lossSum' = lossSum + k.loss
  /\ nKernel' = nKernel + 1

\* lines 428-433: the gradient g scattered to the rows of the input
UpdateScatter(input, g) ==
  /\ grad_' = g
  /\ wi_' = ScatterRows(wi_, g, input, Len(input))

\* lines 419-433: update once the kernel's result k is computed
UpdateBackward(input, k) ==
  /\ TakeKernel(k)
  /\ UpdateScatter(input, IF argsModel = "sup"
                            THEN vecDiv(k.grad, Len(input)) ELSE k.grad)

\* lines 418-433: update once the hidden vector h is computed
UpdateForward(input, t, h) ==
  /\ hidden_' = h
  /\ UpdateBackward(input, LossKernel(KernelState, h, t, 100))
  /\ UNCHANGED <<argsModel, attn_, bias_, softmaxattn_>>

\* lines 414-434: update(input, target, lr)
update ==
  /\ MayCall
  /\ \E input \in UpdateInputs, t \in 0..(osz - 1) :
       /\ call' = [op |-> "update", input |-> input, target |-> t,
                   label |-> FALSE, lr |-> 100, ret |-> 0]
       /\ IF Len(input) = 0
            THEN UNCHANGED <<numVars, negpos, lossSum, nKernel>>
            ELSE UpdateForward(input, t, computeHidden(input, wi_))
  /\ nCalls' = nCalls + 1
  /\ UNCHANGED <<cfgVars, treeVars, negatives, ctlVars, predVars>>

\* lines 373, 411: the parameters bw = [wi, attn, bias] the attention
\* gradient leaves
TakeAttnGradient(bw) ==
  /\ wi_' = bw.wi
  /\ attn_' = bw.attn
  /\ bias_' = bw.bias

\* lines 364-373, 402-411: updateAttn and updateAttn2 once the kernel's
\* result k is computed, on the kept pairs and the forward pass fw
AttnBackward(view, kept, t, fw, k) ==
  /\ TakeKernel(k)
  /\ grad_' = k.grad
  /\ TakeAttnGradient(
       IF view = "context"
         THEN computeAttnGradient([wi |-> wi_, attn |-> attn_, bias |-> bias_],
                                  kept, k.grad, fw.softmaxattn, fw.hidden)
         ELSE computeAttnGradient2([wi |-> wi_, attn |-> attn_, bias |-> bias_],
                                   kept, t, k.grad, fw.softmaxattn, fw.hidden))

\* lines 362-373, 400-411: updateAttn and updateAttn2 once the forward pass
\* fw = [softmaxattn, hidden] is computed
AttnForwardDone(view, kept, t, fw) ==
  /\ softmaxattn_' = fw.softmaxattn
  /\ hidden_' = fw.hidden
  /\ AttnBackward(view, kept, t, fw, LossKernel(KernelState, fw.hidden, t, 100))
  /\ UNCHANGED argsModel

\* lines 351-373, 389-411: updateAttn and updateAttn2 on a non-empty input,
\* kept being the pairs the filter keeps
AttnFiltered(view, kept, t) ==
  IF Len(kept) = 0
    THEN /\ softmaxattn_' = <<>>
         /\ UNCHANGED <<argsModel, wi_, wo_, attn_, bias_, hidden_, grad_,
                        output_, loss_, nexamples_>>
         /\ UNCHANGED <<negpos, lossSum, nKernel>>
    ELSE AttnForwardDone(view, kept, t,
           IF view = "context"
             THEN computeAttnHidden(kept, wi_, attn_, bias_)
             ELSE computeAttnHidden2(kept, t, wi_, attn_, bias_))

\* lines 346-374 (view = "context", updateAttn) and 384-412 (view =
\* "feature", updateAttn2) on input and target t
UpdateAttnBody(view, input, t) ==
  IF Len(input) = 0
    THEN UNCHANGED <<numVars, negpos, lossSum, nKernel>>
    ELSE AttnFiltered(view, EraseTarget(input, t), t)

\* lines 346-374: updateAttn(input, target, lr)
updateAttn ==
  /\ MayCall
  /\ \E input \in AttnInputs, t \in 0..(osz - 1) :
       /\ call' = [op |-> "updateAttn", input |-> input, target |-> t,
                   label |-> FALSE, lr |-> 100, ret |-> 0]
       /\ UpdateAttnBody("context", input, t)
  /\ nCalls' = nCalls + 1
  /\ UNCHANGED <<cfgVars, treeVars, negatives, ctlVars, predVars>>

\* lines 384-412: updateAttn2(input, target, lr)
updateAttn2 ==
  /\ MayCall
  /\ \E input \in AttnInputs, t \in 0..(osz - 1) :
       /\ call' = [op |-> "updateAttn2", input |-> input, target |-> t,
                   label |-> FALSE, lr |-> 100, ret |-> 0]
       /\ UpdateAttnBody("feature", input, t)
  /\ nCalls' = nCalls + 1
  /\ UNCHANGED <<cfgVars, treeVars, negatives, ctlVars, predVars>>

\* lines 50-56: the result b of binaryLogistic taken over by the engine
TakeBinaryLogistic(t, label, lr, b) ==
  /\ wo_' = b.wo
  /\ grad_' = b.grad
  /\ call' = [op |-> "binaryLogistic", input |-> <<>>, target |-> t,
              label |-> label, lr |-> lr, ret |-> b.ret]

\* lines 47-57: binaryLogistic(t, label, lr) called on the engine
BinaryLogisticCall ==
  /\ MayCall
  /\ \E t \in 0..(osz - 1), label \in BOOLEAN, lr \in LrVals :
       TakeBinaryLogistic(t, label, lr,
                          binaryLogistic(wo_, grad_, hidden_, t, label, lr))
  /\ nCalls' = nCalls + 1
  /\ UNCHANGED <<argsModel, wi_, attn_, bias_, hidden_, output_, softmaxattn_,
                 loss_, nexamples_>>
  /\ UNCHANGED <<cfgVars, treeVars, negVars, ctlVars, lossSum, nKernel,
                 predVars>>

\* line 513: getLoss()
getLoss == loss_ \div nexamples_

\* a matrix of n rows and m columns, its entry at (r, c) being e[(r + c) % 2]
Pattern(n, m, e) ==
  [r \in 0..(n - 1) |-> [c \in 0..(m - 1) |-> e[((r + c) % 2) + 1]]]

\* the count vectors of the update specification
UpdCountVectors == {[c \in 0..1 |-> 1], [c \in 0..2 |-> IF c = 0 THEN 4 ELSE 1]}

\* lines 23-40: a constructed engine; features and classes share one
\* vocabulary of osz entries
InitUpdate ==
  /\ counts \in UpdCountVectors
  /\ osz = Cardinality(DOMAIN counts)
  /\ argsLoss \in {"ns", "hs", "softmax"}
  /\ argsModel \in {"sup", "sg"}
  /\ EngineConstructed
  /\ wi_ = Pattern(osz, Dim, <<Scale, -500>>)
  /\ wo_ = Pattern(osz, Dim, <<-1000, 2000>>)
  /\ attn_ = Pattern(osz, NPos, <<0, 0>>)
  /\ bias_ = [p \in 0..(NPos - 1) |-> 0]
  /\ hidden_ = [d \in 0..(Dim - 1) |-> 750]
  /\ grad_ = ZeroVec
  /\ output_ = [i \in 0..(osz - 1) |-> 0]
  /\ softmaxattn_ = <<>>

NextUpdate ==
  \/ setTargetCounts
  \/ update
  \/ updateAttn
  \/ updateAttn2
  \/ BinaryLogisticCall

SpecUpdate == InitUpdate /\ [][NextUpdate]_vars

--------------------------------------------------------------------------
(* The attention forward pass called on drawn parameters *)

\* the entries attn_ and bias_ are drawn from: -60, 0 and 2
AttnVals == {-60000, 0, 2000}

\* the non-empty inputs of the forward pass: pairs of a feature and a position
ForwardInputs ==
  {<<<<0, 0>>>>, <<<<0, 0>>, <<1, 1>>>>, <<<<1, 0>>, <<0, 0>>, <<1, 1>>>>}

\* lines 131-175: computeAttnHidden(input, hidden_, softmaxattn_)
ComputeAttnHiddenCall ==
  /\ pc = "idle" /\ call.op = "none"
  /\ \E input \in ForwardInputs :
       /\ call' = [op |-> "computeAttnHidden", input |-> input, target |-> 0,
                   label |-> FALSE, lr |-> 0, ret |-> 0]
       /\ TakeForward(computeAttnHidden(input, wi_, attn_, bias_))
  /\ nCalls' = nCalls + 1
  /\ UNCHANGED <<argsModel, wi_, wo_, attn_, bias_, grad_, output_, loss_,
                 nexamples_, lossSum, nKernel>>
  /\ UNCHANGED <<cfgVars, treeVars, negVars, ctlVars, predVars>>

\* lines 184-210: computeAttnHidden2(input, target, hidden_, softmaxattn_)
ComputeAttnHidden2Call ==
  /\ pc = "idle" /\ call.op = "none"
  /\ \E input \in ForwardInputs, t \in 0..(osz - 1) :
       /\ call' = [op |-> "computeAttnHidden2", input |-> input, target |-> t,
                   label |-> FALSE, lr |-> 0, ret |-> 0]
       /\ TakeForward(computeAttnHidden2(input, t, wi_, attn_, bias_))
  /\ nCalls' = nCalls + 1
  /\ UNCHANGED <<argsModel, wi_, wo_, attn_, bias_, grad_, output_, loss_,
                 nexamples_, lossSum, nKernel>>
  /\ UNCHANGED <<cfgVars, treeVars, negVars, ctlVars, predVars>>

\* lines 23-40: a constructed engine of two features and classes, its
\* attention parameters drawn
InitAttn ==
  /\ counts = [c \in 0..1 |-> 1]
  /\ osz = 2
  /\ argsLoss = "softmax"
  /\ argsModel = "sg"
  /\ EngineConstructed
  /\ wi_ = Pattern(osz, Dim, <<Scale, -500>>)
  /\ wo_ = Pattern(osz, Dim, <<0, 0>>)
  /\ attn_ \in [0..(osz - 1) -> [0..(NPos - 1) -> AttnVals]]
  /\ bias_ \in [0..(NPos - 1) -> AttnVals]
  /\ hidden_ = ZeroVec
  /\ grad_ = ZeroVec
  /\ output_ = [i \in 0..(osz - 1) |-> 0]
  /\ softmaxattn_ = <<>>

NextAttn ==
  \/ ComputeAttnHiddenCall
  \/ ComputeAttnHidden2Call

SpecAttn == InitAttn /\ [][NextAttn]_vars

--------------------------------------------------------------------------
(* Model::predict, Model::findKBest, Model::dfs *)

\* the largest k of a predict
MaxK == 3

\* the largest number of classes of the prediction specification
PredMaxOsz == 4

\* a slip in the comparison: the pair of the smaller score first
ComparePairsLess(l, r) == l[1] < r[1]

\* lines 212-215: comparePairs, on pairs <<score, node>>
comparePairs(l, r) == l[1] > r[1]

Swap(h, i, j) == [h EXCEPT ![i] = h[j], ![j] = h[i]]

RECURSIVE SiftUp(_, _)
\* the entry at i moved up while its parent compares before it
SiftUp(h, i) ==
  IF i > 1 /\ comparePairs(h[i \div 2], h[i])
    THEN SiftUp(Swap(h, i, i \div 2), i \div 2)
    ELSE h

\* the child of i, among the first n entries, that no other child compares
\* after
TopChild(h, i, n) ==
  IF 2 * i + 1 <= n /\ comparePairs(h[2 * i], h[2 * i + 1])
    THEN 2 * i + 1
    ELSE 2 * i

RECURSIVE SiftDown(_, _, _)
\* the entry at i moved down within the first n entries
SiftDown(h, i, n) ==
  IF 2 * i <= n /\ comparePairs(h[i], h[TopChild(h, i, n)])
    THEN SiftDown(Swap(h, i, TopChild(h, i, n)), TopChild(h, i, n), n)
    ELSE h

\* lines 244, 261: std::push_heap with comparePairs, the new entry last
push_heap(h) == SiftUp(h, Len(h))

\* lines 246, 263: std::pop_heap with comparePairs, the front moved last
pop_heap(h) == SiftDown(Swap(h, 1, Len(h)), 1, Len(h) - 1)

\* lines 247, 264: heap.pop_back()
pop_back(h) == SubSeq(h, 1, Len(h) - 1)

RECURSIVE SortHeapFrom(_, _)
\* the first n entries of the heap popped one after the other
SortHeapFrom(h, n) ==
  IF n <= 1 THEN h
  ELSE SortHeapFrom(SiftDown(Swap(h, 1, n), 1, n - 1), n - 1)

\* line 228: std::sort_heap with comparePairs
sort_heap(h) == SortHeapFrom(h, Len(h))

\* lines 245-248, 262-265: the front dropped when the heap h holds more than
\* k entries
Trim(h, k) == IF Len(h) > k THEN pop_back(pop_heap(h)) ELSE h

\* lines 243-248, 260-265: the pair e pushed on the heap h of at most k
PushTrim(h, e, k) == Trim(push_heap(Append(h, e)), k)

\* lines 240-248: the body of the loop of findKBest, for class i of score s
FindKBestStep(h, k, i, s) ==
  IF Len(h) = k /\ s < h[1][1] THEN h ELSE PushTrim(h, <<s, i>>, k)

RECURSIVE FindKBestFrom(_, _, _, _)
\* lines 239-249: the loop of findKBest from class i on
FindKBestFrom(h, out, k, i) ==
  IF i >= osz THEN h
  ELSE FindKBestFrom(FindKBestStep(h, k, i, log(out[i])), out, k, i + 1)

\* lines 236-250: findKBest on the output out of computeOutputSoftmax
findKBest(k, h, out) == FindKBestFrom(h, out, k, 0)

\* the inputs of predict
PredictInputs == {<<0>>}

\* lines 222-226: the hidden vector h computed, then findKBest run or the
\* first call of dfs, on the root with score 0.0, made
PredictFrom(k, h) ==
  /\ hidden_' = h
  /\ kArg' = k
  /\ IF argsLoss = "hs"
       THEN /\ dfsStack' = <<[node |-> 2 * osz - 2, score |-> 0]>>
            /\ heap' = <<>>
            /\ output_' = output_
       ELSE /\ dfsStack' = <<>>
            /\ output_' = computeOutputSoftmax(wo_, h)
            /\ heap' = findKBest(k, <<>>, computeOutputSoftmax(wo_, h))

\* lines 217-226: predict(input, k, heap) called with an empty heap
PredictCall ==
  /\ built /\ pc = "idle" /\ call.op = "none"
  /\ \E input \in PredictInputs, k \in 1..MaxK :
       /\ call' = [op |-> "predict", input |-> input, target |-> 0,
                   label |-> FALSE, lr |-> 0, ret |-> 0]
       /\ PredictFrom(k, computeHidden(input, wi_))
  /\ pc' = "predict"
  /\ nCalls' = nCalls + 1
  /\ UNCHANGED <<argsModel, wi_, wo_, attn_, bias_, grad_, softmaxattn_,
                 loss_, nexamples_, lossSum, nKernel, nPruned>>
  /\ UNCHANGED <<cfgVars, treeVars, negVars, caller, target, startpos,
                 examined, ret, nsN, nBinLog>>

\* lines 269-271: the calls of dfs on the children of node, the left one
\* first, f the sigmoid of the node's product
DfsChildren(node, score, f) ==
  <<[node |-> tree[node].left, score |-> score + log(Scale - f)],
    [node |-> tree[node].right, score |-> score + log(f)]>>

\* lines 252-272: one call dfs(k, node, score, heap, hidden), up to its
\* return or its first recursive call
DfsCall(node, score) ==
  IF Len(heap) = kArg /\ score < heap[1][1]
    THEN /\ nPruned' = nPruned + 1
         /\ dfsStack' = Tail(dfsStack)
         /\ heap' = heap
    ELSE IF tree[node].left = -1 /\ tree[node].right = -1
    THEN /\ heap' = PushTrim(heap, <<score, node>>, kArg)
         /\ dfsStack' = Tail(dfsStack)
         /\ nPruned' = nPruned
    ELSE /\ dfsStack' =
              DfsChildren(node, score,
                          sigmoid(dotRow(wo_, hidden_, node - osz)))
                \o Tail(dfsStack)
         /\ heap' = heap
         /\ nPruned' = nPruned

\* lines 252-272: the next call of dfs runs
Dfs ==
  /\ pc = "predict" /\ dfsStack # <<>>
  /\ DfsCall(Head(dfsStack).node, Head(dfsStack).score)
  /\ UNCHANGED <<cfgVars, treeVars, negVars, ctlVars, numVars, histVars, kArg>>

\* line 228: the heap sorted, predict returns
PredictReturn ==
  /\ pc = "predict" /\ dfsStack = <<>>
  /\ heap' = sort_heap(heap)
  /\ pc' = "idle"
  /\ UNCHANGED <<cfgVars, treeVars, negVars, numVars, histVars, kArg,
                 dfsStack, nPruned>>
  /\ UNCHANGED <<caller, target, startpos, examined, ret, nsN, nBinLog>>

\* the entries of wo_ in the prediction specification: -2, 0 and 2
WoVals == {-2000, 0, 2000}

PredCountVals == {1, 3}

\* the row of wo_ whose first entry is v
WoRow(v) == [d \in 0..(Dim - 1) |-> IF d = 0 THEN v ELSE 0]

\* lines 23-40: a constructed engine with loss = hs or softmax, its output
\* matrix drawn, before setTargetCounts
InitPredict ==
  /\ osz \in 1..PredMaxOsz
  /\ counts \in [0..(osz - 1) -> PredCountVals]
  /\ argsLoss \in {"hs", "softmax"}
  /\ argsModel = "sup"
  /\ EngineConstructed
  /\ wi_ = Pattern(osz, Dim, <<Scale, -500>>)
  /\ \E v \in [0..(osz - 1) -> WoVals] :
       wo_ = [i \in 0..(osz - 1) |-> WoRow(v[i])]
  /\ attn_ = [i \in 0..(osz - 1) |-> [p \in 0..(NPos - 1) |-> 0]]
  /\ bias_ = [p \in 0..(NPos - 1) |-> 0]
  /\ hidden_ = ZeroVec
  /\ grad_ = ZeroVec
  /\ output_ = [i \in 0..(osz - 1) |-> 0]
  /\ softmaxattn_ = <<>>

NextPredict ==
  \/ setTargetCounts
  \/ PredictCall
  \/ Dfs
  \/ PredictReturn

SpecPredict == InitPredict /\ [][NextPredict]_vars

\* the count vectors of the tree specification
TreeCountVectors ==
  UNION {[0..(n - 1) -> TreeCountVals] : n \in 1..MaxOsz} \cup {ScenarioCounts}

\* lines 23-40: a constructed engine with loss = hs, before setTargetCounts
InitTree ==
  /\ counts \in TreeCountVectors
  /\ osz = Cardinality(DOMAIN counts)
  /\ argsLoss = "hs"
  /\ EngineConstructed
  /\ NumUnused

NextTree == setTargetCounts

SpecTree == InitTree /\ [][NextTree]_vars

\* the count vectors of the negative-sampling specification
NegCountVectors == UNION {[0..(n - 1) -> NegCountVals] : n \in 1..NegMaxOsz}

\* lines 23-40: a constructed engine with loss = ns, before setTargetCounts
InitNeg ==
  /\ counts \in NegCountVectors
  /\ osz = Cardinality(DOMAIN counts)
  /\ argsLoss = "ns"
  /\ EngineConstructed
  /\ NumUnused

NextNeg ==
  \/ setTargetCounts
  \/ CallGetNegative
  \/ GetNegativeIter
  \/ CallNegativeSampling
  \/ NSLoop
  \/ NSNegative

\* every kernel runs to completion on its calling thread: a loop iteration
\* that can run, runs
SpecNeg ==
  /\ InitNeg
  /\ [][NextNeg]_vars
  /\ WF_vars(GetNegativeIter)
  /\ WF_vars(NSLoop)
  /\ WF_vars(NSNegative)

--------------------------------------------------------------------------
(* Claims about the negative table *)

\* the table holds a class other than t
HasOther(t) == \E k \in 1..Len(negatives) : negatives[k] # t

\* C4: a value getNegative returns is an entry of the table other than
\* target; the cursor stays in [0, |negatives|) and has moved by one, modulo
\* |negatives|, for each entry read
C4_NegativeAndCursor ==
  built =>
    /\ negpos \in 0..(Len(negatives) - 1)
    /\ examined <= Len(negatives) =>
         negpos = (startpos + examined) % Len(negatives)
    /\ ret # -1 =>
         /\ ret # target
         /\ \E k \in 1..Len(negatives) : negatives[k] = ret

\* a getNegative has returned after rejecting an entry and wrapping around
C4_Witness ==
  /\ ret # -1 /\ examined >= 2 /\ negpos < startpos /\ pc = "idle"
  /\ caller = "driver"

\* C10: when the table holds a class other than target, getNegative reads at
\* most |negatives| entries and returns, and negativeSampling returns after
\* exactly neg + 1 binaryLogistic calls
C10_Terminates ==
  /\ [](pc = "getNegative" /\ HasOther(target) => examined < Len(negatives))
  /\ [](ret # -1 => examined <= Len(negatives))
  /\ [](pc = "idle" /\ caller = "ns" => nBinLog = Neg + 1)
  /\ (pc = "getNegative" /\ HasOther(target)) ~> (ret # -1)
  /\ (pc = "nsLoop" /\ HasOther(target)) ~> (pc = "idle")

\* a negativeSampling has returned whose last getNegative rejected entries
C10_Witness ==
  /\ pc = "idle" /\ caller = "ns" /\ nBinLog = Neg + 1 /\ examined >= 2

--------------------------------------------------------------------------
(* Claims about the tree *)

RECURSIVE WalkDown(_, _, _, _, _)
\* the walk of C1: from node cur, for k down to 1, cur must be the internal
\* node path[k]+osz and the step goes right when code[k], left otherwise;
\* -2 when cur is not that node
WalkDown(t, n, path, code, k) ==
  IF k = Len(path) + 1 THEN 2 * n - 2
  ELSE LET cur == WalkDown(t, n, path, code, k + 1)
       IN  IF cur = -2 \/ cur # path[k] + n THEN -2
           ELSE IF code[k] THEN t[cur].right ELSE t[cur].left

ValidPath(c) ==
  /\ Len(paths[c + 1]) = Len(codes[c + 1])
  /\ WalkDown(tree, osz, paths[c + 1], codes[c + 1], 1) = c

\* C1: after buildTree, for every class c, paths[c] and codes[c] have the
\* same length and the walk from the root along them ends at leaf c
C1_PathsReachLeaves ==
  built => \A c \in 0..(osz - 1) : ValidPath(c)

\* a tree of six classes has been built, one of its leaves at depth 3 or more
C1_Witness ==
  built /\ osz = 6 /\ \E c \in 0..5 : Len(paths[c + 1]) >= 3

\* C2 as stated: with counts [10, 5, 1], paths[0] is valid and has length 2
C2_Original ==
  (built /\ counts = ScenarioCounts) =>
     (ValidPath(0) /\ Len(paths[1]) = 2)

\* C2, amended: with counts [10, 5, 1], paths[0] and codes[0] are a valid
\* path between leaf 0 and the root, of length 1
C2_ScenarioPath ==
  (built /\ counts = ScenarioCounts) =>
     (ValidPath(0) /\ Len(paths[1]) = 1 /\ Len(codes[1]) = 1)

\* the scenario's tree has been built
C2_Witness ==
  built /\ counts = ScenarioCounts /\ Len(paths) = 3

RECURSIVE CeilLog2(_)
\* the least e with 2^e >= n
CeilLog2(n) == IF n <= 1 THEN 0 ELSE 1 + CeilLog2((n + 1) \div 2)

\* C3 as stated: every path is at most ceil(log2(osz)) + 1 long
C3_Original ==
  built => \A c \in 0..(osz - 1) : Len(paths[c + 1]) <= CeilLog2(osz) + 1

\* C3, amended: every path is at most osz - 1 long (at most 0 for osz = 1)
C3_PathLength ==
  built => \A c \in 0..(osz - 1) : Len(paths[c + 1]) <= osz - 1

\* a built tree whose deepest leaf is at depth osz - 1, deeper than
\* ceil(log2(osz)) + 1
C3_Witness ==
  built /\ \E c \in 0..(osz - 1) :
     Len(paths[c + 1]) = osz - 1 /\ Len(paths[c + 1]) > CeilLog2(osz) + 1

--------------------------------------------------------------------------
(* Claims about the update drivers and the loss kernels *)

\* call c is an update whose input is empty, or an updateAttn or updateAttn2
\* whose input is empty once the pairs of the target's feature are erased
EarlyReturnInput(c) ==
  /\ c.op \in {"update", "updateAttn", "updateAttn2"}
  /\ \/ c.input = <<>>
     \/ /\ c.op # "update"
        /\ \A i \in 1..Len(c.input) : c.input[i][1] = c.target

\* C5: an update, updateAttn or updateAttn2 whose input is empty, or empty
\* after the filter, runs no forward pass and no loss kernel and leaves wi_,
\* wo_, attn_, bias_, the loss accumulator and the example counter unchanged
C5_EarlyReturnFrame ==
  [][(nCalls' = nCalls + 1 /\ EarlyReturnInput(call')) =>
       /\ wi_' = wi_ /\ wo_' = wo_ /\ attn_' = attn_ /\ bias_' = bias_
       /\ loss_' = loss_ /\ nexamples_' = nexamples_
       /\ hidden_' = hidden_ /\ grad_' = grad_ /\ nKernel' = nKernel]_vars

\* an updateAttn whose pairs all carry the target's feature has returned,
\* after an earlier call that ran a kernel
C5_Witness ==
  /\ call.op = "updateAttn" /\ call.input # <<>> /\ EarlyReturnInput(call)
  /\ nKernel = 1 /\ nCalls = 2

\* C8 as stated: getLoss() is the sum of the kernel losses divided by the
\* number of kernel runs
C8_Original ==
  nKernel >= 1 => getLoss = lossSum \div nKernel

\* C8, amended: loss_ is the sum of the kernel losses, nexamples_ is one more
\* than the number of kernel runs, and getLoss() is their quotient
C8_LossAverage ==
  /\ loss_ = lossSum
  /\ nexamples_ = nKernel + 1
  /\ getLoss = lossSum \div (nKernel + 1)

\* two calls have run a kernel and the accumulated loss is positive
C8_Witness ==
  nKernel = 2 /\ lossSum > 0 /\ getLoss # lossSum \div nKernel

\* C9: binaryLogistic(t, y, 0) leaves wo_ and grad unchanged and returns the
\* cross-entropy of the parameters it was called on
C9_ZeroLearningRate ==
  [][(nCalls' = nCalls + 1 /\ call'.op = "binaryLogistic" /\ call'.lr = 0) =>
       /\ wo_' = wo_
       /\ grad_' = grad_
       /\ LET s == sigmoid(dotRow(wo_, hidden_, call'.target))
          IN  call'.ret = IF call'.label THEN -log(s) ELSE -log(Scale - s)]_vars

\* binaryLogistic has been called with lr = 0 on a non-zero hidden vector and
\* a non-zero row of wo_, with a score strictly between 0 and 1
C9_Witness ==
  /\ call.op = "binaryLogistic" /\ call.lr = 0
  /\ hidden_ # ZeroVec /\ wo_[call.target] # ZeroVec
  /\ call.ret > 0

--------------------------------------------------------------------------
(* Claims about the attention forward pass *)

\* C6: after computeAttnHidden or computeAttnHidden2 on a non-empty input,
\* softmaxattn has one entry per pair, every entry is in [0, 1] and the
\* entries sum to 1 within 1e-5
C6_WeightsNormalised ==
  call.op \in {"computeAttnHidden", "computeAttnHidden2"} =>
    /\ Len(softmaxattn_) = Len(call.input)
    /\ \A i \in 1..Len(softmaxattn_) :
         /\ softmaxattn_[i].den > 0
         /\ 0 <= softmaxattn_[i].num
         /\ softmaxattn_[i].num <= softmaxattn_[i].den
    /\ LET sum == SeqSum([i \in 1..Len(softmaxattn_) |-> softmaxattn_[i].num],
                         Len(softmaxattn_))
           den == softmaxattn_[1].den
       IN  /\ (sum - den) * 100000 <= den
           /\ (den - sum) * 100000 <= den

--------------------------------------------------------------------------
(* Claims about predict *)

RECURSIVE Enumerate(_, _)
\* the pairs <<score, leaf>> of every leaf below node, no subtree pruned
Enumerate(node, score) ==
  IF tree[node].left = -1 /\ tree[node].right = -1
    THEN {<<score, node>>}
    ELSE Enumerate(tree[node].left,
                   score + log(Scale - sigmoid(dotRow(wo_, hidden_, node - osz))))
         \cup
         Enumerate(tree[node].right,
                   score + log(sigmoid(dotRow(wo_, hidden_, node - osz))))

Min(a, b) == IF a < b THEN a ELSE b

\* the heap holds the best Min(kArg, osz) pairs of all, the best first
BestOf(all) ==
  /\ Cardinality(all) = osz
  /\ Len(heap) = Min(kArg, osz)
  /\ \A i \in 1..Len(heap) :
       /\ heap[i] \in all
       /\ heap[i][2] \in 0..(osz - 1)
  /\ \A i, j \in 1..Len(heap) : i < j =>
       /\ heap[i][2] # heap[j][2]
       /\ heap[i][1] >= heap[j][1]
  /\ \A e \in all :
       (\A i \in 1..Len(heap) : heap[i] # e) => e[1] <= heap[Len(heap)][1]

\* C7: with loss = hs, a built tree and an empty heap, predict returns the
\* Min(k, osz) pairs (score, leaf) of the highest cumulative scores among
\* all leaves, as an enumeration without pruning finds them, ordered by
\* descending score; the heap never holds more than k entries after a leaf
\* is pushed and the heap trimmed
C7_TopK ==
  (argsLoss = "hs" /\ call.op = "predict") =>
    /\ Len(heap) <= kArg
    /\ pc = "idle" => BestOf(Enumerate(2 * osz - 2, 0))

\* a predict with k = 2 on four classes has returned, dfs having pruned a
\* subtree and the scores of the two pairs differing
C7_Witness ==
  /\ argsLoss = "hs" /\ call.op = "predict" /\ pc = "idle"
  /\ osz = 4 /\ kArg = 2
  /\ nPruned > 0
  /\ Len(heap) = 2 /\ heap[1][1] > heap[2][1]

==========================================================================
